---- MODULE Spec2Model ----
(***************************************************************************)
(* Model of src/datasets/isr/pyg_dataloader_isr.py: the ISRDataReader      *)
(* graph construction (SpatioTemporalGraphBuilder template, per-video      *)
(* slicing) and the ISRDataLoader split / loader construction.             *)
(*                                                                         *)
(* Tensors are records [shape, data]: shape is the sequence of dimension   *)
(* sizes and data the elements in row-major (contiguous) order, so that    *)
(* slicing, transposition and reshape are modelled by what they do to the  *)
(* layout.  Coordinates of a video are symbolic: the value stored at       *)
(* node_pos[c][f][n] is the tuple <<c, f, n>>.  The fields label and gloss *)
(* are passed through by the code untouched and are left out.              *)
(***************************************************************************)
EXTENDS Integers, Sequences, FiniteSets, TLC

\* ---------------------------------------------------------------- bounds
\* args.n_nodes: nodes per frame (27 in the default configuration).
N_NODES == 3
\* Largest number of videos of a dataset of short videos.
MaxVideos == 2
\* Largest frame count of a short video.
MaxSmallFrames == 3

\* ------------------------------------------------------ program constants
\* ISRDataReader.max_frames
max_frames == 300

\* Default holistic mediapipe edges (27-node skeleton).
DefaultInwardEdges ==
    << <<2, 0>>, <<1, 0>>, <<0, 3>>, <<0, 4>>, <<3, 5>>, <<4, 6>>, <<5, 7>>, <<6, 17>>,
       <<7, 8>>, <<7, 9>>, <<9, 10>>, <<7, 11>>, <<11, 12>>, <<7, 13>>, <<13, 14>>,
       <<7, 15>>, <<15, 16>>, <<17, 18>>, <<17, 19>>, <<19, 20>>, <<17, 21>>, <<21, 22>>,
       <<17, 23>>, <<23, 24>>, <<17, 25>>, <<25, 26>> >>

EdgeWithinNodes(edge) == edge[1] < N_NODES /\ edge[2] < N_NODES

\* The skeleton restricted to the first N_NODES landmarks (the whole default
\* list when N_NODES = 27).
inward_edges == SelectSeq(DefaultInwardEdges, EdgeWithinNodes)

n_spatial_edges == Len(inward_edges)
n_temporal_edges == N_NODES

\* ------------------------------------------------------------ tensor layer
Min(a, b) == IF a < b THEN a ELSE b
Max(a, b) == IF a > b THEN a ELSE b

\* Python's seq[:stop] on a dimension of size len: a negative stop counts
\* from the end, and the result is clamped to [0, len].
SliceStop(len, stop) ==
    IF stop < 0 THEN Max(len + stop, 0) ELSE Min(stop, len)

\* torch.tensor(list of rows): an empty list gives a 1-D tensor of shape (0,).
TensorOfRows(rows, ncols) ==
    IF Len(rows) = 0
    THEN [shape |-> <<0>>, data |-> <<>>]
    ELSE [shape |-> <<Len(rows), ncols>>,
          data  |-> [k \in 1..(Len(rows) * ncols) |->
                        rows[((k - 1) \div ncols) + 1][((k - 1) % ncols) + 1]]]

\* Element [i][j] (0-based) of a 2-D tensor.
At(t, i, j) == t.data[i * t.shape[2] + j + 1]

\* t[:stop, :] of a 2-D tensor.
SliceRows(t, stop) ==
    LET r == SliceStop(t.shape[1], stop)
    IN  [shape |-> <<r, t.shape[2]>>,
         data  |-> [k \in 1..(r * t.shape[2]) |-> t.data[k]]]

\* t[:, :stop] of a 2-D tensor.
SliceCols(t, stop) ==
    LET c == SliceStop(t.shape[2], stop)
    IN  [shape |-> <<t.shape[1], c>>,
         data  |-> [k \in 1..(t.shape[1] * c) |->
                        At(t, (k - 1) \div c, (k - 1) % c)]]

\* t.t().contiguous() / t.T of a 2-D tensor.
Transpose(t) ==
    LET r == t.shape[1]
        c == t.shape[2]
    IN  [shape |-> <<c, r>>,
         data  |-> [k \in 1..(r * c) |-> At(t, (k - 1) % r, (k - 1) \div r)]]

\* Variant of reshape_nodes that keeps the frame dimension instead of the
\* channel dimension: pos_data.reshape(pos_data.shape[1], -1).
reshape_nodes_by_frame(pos_data) ==
    [shape |-> <<pos_data.shape[2],
                 IF pos_data.shape[2] = 0 THEN 0
                 ELSE Len(pos_data.data) \div pos_data.shape[2]>>,
     data  |-> pos_data.data]

\* pos_data.reshape(pos_data.shape[0], -1): the data keep their contiguous
\* order, the first dimension is kept and the second one is inferred.
reshape_nodes(pos_data) ==
    [shape |-> <<pos_data.shape[1], Len(pos_data.data) \div pos_data.shape[1]>>,
     data  |-> pos_data.data]

\* np.eye(n)
Eye(n) ==
    [shape |-> <<n, n>>,
     data  |-> [k \in 1..(n * n) |->
                   IF (k - 1) \div n = (k - 1) % n THEN 1 ELSE 0]]

\* Variant of Tile that repeats every column reps times in place
\* (np.repeat(m, reps, axis=1)).
TileByRepeat(m, reps) ==
    LET r == m.shape[1]
        c == m.shape[2]
    IN  [shape |-> <<r, c * reps>>,
         data  |-> [k \in 1..(r * c * reps) |->
                       At(m, (k - 1) \div (c * reps), ((k - 1) % (c * reps)) \div reps)]]

\* np.tile(m, (1, reps)): reps copies of m side by side.
Tile(m, reps) ==
    LET r == m.shape[1]
        c == m.shape[2]
    IN  [shape |-> <<r, c * reps>>,
         data  |-> [k \in 1..(r * c * reps) |->
                       At(m, (k - 1) \div (c * reps), ((k - 1) % (c * reps)) % c)]]

\* --------------------------------------------- SpatioTemporalGraphBuilder
\* Variant of SpatialEdgeList with the two loops exchanged: the outer loop
\* over inward_edges, the inner one over the frames.
SpatialEdgeListEdgeMajor(nframes) ==
    [i \in 1..(nframes * n_spatial_edges) |->
        LET frame        == (i - 1) % nframes
            edge         == inward_edges[((i - 1) \div nframes) + 1]
            frame_offset == frame * N_NODES
        IN  <<frame_offset + edge[1], frame_offset + edge[2]>>]

\* The list spatial_edges of _build_spatiotemporal_edges for nframes frames:
\* the outer loop runs over the frames, the inner one over inward_edges.
SpatialEdgeList(nframes) ==
    [i \in 1..(nframes * n_spatial_edges) |->
        LET frame        == (i - 1) \div n_spatial_edges
            edge         == inward_edges[((i - 1) % n_spatial_edges) + 1]
            frame_offset == frame * N_NODES
        IN  <<frame_offset + edge[1], frame_offset + edge[2]>>]

\* The list temporal_edges: range(nframes - 1) frames, range(N_NODES) nodes.
TemporalEdgeList(nframes) ==
    [i \in 1..(Max(nframes - 1, 0) * N_NODES) |->
        LET frame == (i - 1) \div N_NODES
            node  == (i - 1) % N_NODES
        IN  <<frame * N_NODES + node, (frame + 1) * N_NODES + node>>]

BuildSpatialEdges(nframes) == TensorOfRows(SpatialEdgeList(nframes), 2)
BuildTemporalEdges(nframes) == TensorOfRows(TemporalEdgeList(nframes), 2)

\* _build_node_features
BuildNodeFeatures(nframes) == Tile(Eye(N_NODES), nframes)

\* ------------------------------------------------------------------ inputs
Splits == {"train", "val", "test"}
Views == {0, 1, 2}
Modes == {"per_frame", "spatio_temporal"}

\* The reduced pose sequence of a video: shape (2, n_frames, N_NODES).
PosTensor(n_frames) ==
    [shape |-> <<2, n_frames, N_NODES>>,
     data  |-> [k \in 1..(2 * n_frames * N_NODES) |->
                   << (k - 1) \div (n_frames * N_NODES),
                      ((k - 1) \div N_NODES) % n_frames,
                      (k - 1) % N_NODES >>]]

\* One item of the data_dict returned by _load_pose_data.
Video(n_frames, split, view) ==
    [node_pos |-> PosTensor(n_frames), split |-> split, view |-> view]

\* Short videos of every length, one (split, view) per split.
LengthVideos ==
    {Video(f, "train", 0) : f \in 0..MaxSmallFrames}
        \cup {Video(f, "val", 1) : f \in 0..MaxSmallFrames}
        \cup {Video(f, "test", 2) : f \in 0..MaxSmallFrames}

\* Videos of two frames with every split and view.
LabelVideos == {Video(2, s, v) : s \in Splits, v \in Views}

\* Videos just below, at and just above the max_frames ceiling.
LongVideos ==
    {Video(f, "test", 0) : f \in {max_frames - 1, max_frames, max_frames + 1}}

SeqsUpTo(S, n) == UNION {[1..k -> S] : k \in 0..n}

\* The pose data the reader starts from: datasets that vary in the lengths
\* of their videos, datasets that vary in their splits and views, and
\* datasets with a video around the ceiling, alone or after a short video.
Datasets ==
    SeqsUpTo(LengthVideos, MaxVideos)
        \cup SeqsUpTo(LabelVideos, MaxVideos)
        \cup {<<v>> : v \in LongVideos}
        \cup {<<Video(2, "train", 0), Video(max_frames + 1, "test", 0)>>}

NoTensor == [shape |-> <<>>, data |-> <<>>]
NoLoader == [data_list |-> <<>>, shuffle |-> FALSE]

\* ------------------------------------------------------------------- state
VARIABLES
    pc,                      \* position in __main__
    err,                     \* the exception that ended the run, or "none"
    temporal_configuration,  \* args.temporal_configuration
    pose_dict,               \* data_dict of ISRDataReader.__init__ (pose data)
    max_n_frames,            \* graph_constructor.max_n_frames
    spatial_edges,           \* graph_constructor.spatial_edges
    temporal_edges,          \* graph_constructor.temporal_edges
    landmark_features,       \* graph_constructor.landmark_features
    graph_dict,              \* graph_dict of _build_spatio_temporal_graph
    sliced,                  \* per video: the locals spatial_edges, temporal_edges
    data_dict,               \* ISRDataReader.data_dict / ISRDataLoader.data_dict
    edge_index,              \* ISRDataLoader.edge_index
    partitions,              \* what _split_dataset returned last
    train_loader, val_loader, test_loader

vars == <<pc, err, temporal_configuration, pose_dict, max_n_frames, spatial_edges,
          temporal_edges, landmark_features, graph_dict, sliced, data_dict,
          edge_index, partitions, train_loader, val_loader, test_loader>>

builderVars == <<max_n_frames, spatial_edges, temporal_edges, landmark_features>>
loaderVars == <<edge_index, partitions, train_loader, val_loader, test_loader>>

NoPartitions == [train |-> <<>>, val |-> <<>>, test |-> <<<<>>, <<>>, <<>>>>]

Init ==
    /\ pc = "build_constructor"
    /\ err = "none"
    /\ temporal_configuration \in Modes
    /\ pose_dict \in Datasets
    /\ max_n_frames = 0
    /\ spatial_edges = NoTensor
    /\ temporal_edges = NoTensor
    /\ landmark_features = NoTensor
    /\ graph_dict = <<>>
    /\ sliced = <<>>
    /\ data_dict = <<>>
    /\ edge_index = NoTensor
    /\ partitions = NoPartitions
    /\ train_loader = NoLoader
    /\ val_loader = NoLoader
    /\ test_loader = <<NoLoader, NoLoader, NoLoader>>

\* ----------------------------------------------------------- ISRDataReader
RECURSIVE MaxFrames(_, _)
\* max(item['node_pos'].shape[1] for item in data_dict.values()), data_dict
\* not empty.
MaxFrames(d, k) ==
    IF k = 1 THEN d[1].node_pos.shape[2]
    ELSE Max(MaxFrames(d, k - 1), d[k].node_pos.shape[2])

\* SpatioTemporalGraphBuilder(data_dict, args): max() of an empty sequence
\* raises ValueError.
BuildGraphConstructor ==
    /\ pc = "build_constructor"
    /\ IF Len(pose_dict) = 0
       THEN /\ pc' = "error"
            /\ err' = "ValueError"
            /\ UNCHANGED builderVars
       ELSE /\ max_n_frames' = MaxFrames(pose_dict, Len(pose_dict))
            /\ spatial_edges' = BuildSpatialEdges(max_n_frames')
            /\ temporal_edges' = BuildTemporalEdges(max_n_frames')
            /\ landmark_features' = BuildNodeFeatures(max_n_frames')
            /\ pc' = "assemble"
            /\ err' = err
    /\ UNCHANGED <<temporal_configuration, pose_dict, graph_dict, sliced, data_dict>>
    /\ UNCHANGED loaderVars

\* The number of frames the edges of a video are cut to (the two branches of
\* the loop body).
FramesUsed(n_frames) == IF n_frames < max_frames THEN n_frames ELSE max_frames

\* One iteration of the loop of _build_spatio_temporal_graph, for the next
\* video of data_dict.  Indexing a 1-D tensor with [:k, :] raises IndexError.
AssembleVideo ==
    /\ pc = "assemble"
    /\ Len(graph_dict) < Len(pose_dict)
    /\ LET data     == pose_dict[Len(graph_dict) + 1]
           n_frames == data.node_pos.shape[2]
           end_idx  == n_frames * N_NODES
           used     == FramesUsed(n_frames)
       IN  IF Len(spatial_edges.shape) # 2 \/ Len(temporal_edges.shape) # 2
           THEN /\ pc' = "error"
                /\ err' = "IndexError"
                /\ UNCHANGED <<graph_dict, sliced>>
           ELSE LET s   == Transpose(SliceRows(spatial_edges, used * n_spatial_edges))
                    t   == Transpose(SliceRows(temporal_edges,
                                               (used - 1) * n_temporal_edges))
                    x   == Transpose(SliceCols(landmark_features, end_idx))
                    pos == reshape_nodes(data.node_pos)
                IN  /\ graph_dict' = Append(graph_dict,
                            [x |-> x, n_frames |-> n_frames, node_pos |-> pos,
                             edges |-> s, split |-> data.split, view |-> data.view])
                    /\ sliced' = Append(sliced,
                            [spatial_edges |-> s, temporal_edges |-> t])
                    /\ UNCHANGED <<pc, err>>
    /\ UNCHANGED <<temporal_configuration, pose_dict, data_dict>>
    /\ UNCHANGED builderVars
    /\ UNCHANGED loaderVars

\* return graph_dict; self.data_dict = ...
ReaderDone ==
    /\ pc = "assemble"
    /\ Len(graph_dict) = Len(pose_dict)
    /\ data_dict' = graph_dict
    /\ pc' = "loader_init"
    /\ UNCHANGED <<err, temporal_configuration, pose_dict, graph_dict, sliced>>
    /\ UNCHANGED builderVars
    /\ UNCHANGED loaderVars

\* ----------------------------------------------------------- ISRDataLoader
\* A dict is the sequence of its items [k, v] in insertion order; the keys of
\* data_dict are the positions of the videos in the pose data.
Items(d) == [i \in 1..Len(d) |-> [k |-> i, v |-> d[i]]]

IsTrain(item) == item.v.split = "train"
IsVal(item) == item.v.split = "val"
IsTestView0(item) == item.v.split = "test" /\ item.v.view = 0
\* Variant of IsTestView1 that forgets the split: v['view'] == 1.
IsView1(item) == item.v.view = 1
IsTestView1(item) == item.v.split = "test" /\ item.v.view = 1
IsTestView2(item) == item.v.split = "test" /\ item.v.view = 2

\* _split_dataset: five dict comprehensions over data_dict.items().
SplitDataset(d) ==
    [train |-> SelectSeq(Items(d), IsTrain),
     val   |-> SelectSeq(Items(d), IsVal),
     test  |-> << SelectSeq(Items(d), IsTestView0),
                  SelectSeq(Items(d), IsTestView1),
                  SelectSeq(Items(d), IsTestView2) >>]

\* The edge_index _load_data gives to the Data of one item: the item's own
\* edges in spatio_temporal mode, otherwise what self.edge_index holds.
EdgeIndexFor(data, mode, self_edge_index) ==
    IF mode = "spatio_temporal" THEN data.edges ELSE self_edge_index

\* _load_data: the DataLoader built from one partition (batching itself is
\* the library's).
LoadData(part, shuffle, mode, self_edge_index) ==
    [data_list |->
        [i \in 1..Len(part) |->
            [pos        |-> Transpose(part[i].v.node_pos),
             x          |-> part[i].v.x,
             edge_index |-> EdgeIndexFor(part[i].v, mode, self_edge_index),
             n_frames   |-> part[i].v.n_frames,
             view       |-> part[i].v.view]],
     shuffle |-> shuffle]

\* self.edge_index after _load_data ran over one partition.
EdgeIndexAfter(part, mode, self_edge_index) ==
    IF Len(part) = 0 THEN self_edge_index
    ELSE EdgeIndexFor(part[Len(part)].v, mode, self_edge_index)

\* build_loaders, starting with self.edge_index = ei.
DoBuildLoaders(ei) ==
    LET mode  == temporal_configuration
        split == SplitDataset(data_dict)
        ei1   == EdgeIndexAfter(split.train, mode, ei)
        ei2   == EdgeIndexAfter(split.val, mode, ei1)
        ei3   == EdgeIndexAfter(split.test[1], mode, ei2)
    IN  /\ partitions' = split
        /\ train_loader' = LoadData(split.train, TRUE, mode, ei)
        /\ val_loader' = LoadData(split.val, FALSE, mode, ei1)
        /\ test_loader' = << LoadData(split.test[1], FALSE, mode, ei2),
                             LoadData(split.test[1], FALSE, mode, ei3),
                             LoadData(split.test[1], FALSE, mode, ei3) >>
        /\ edge_index' = ei3

\* ISRDataLoader.__init__: the per_frame edge set, then build_loaders.
LoaderInit ==
    /\ pc = "loader_init"
    /\ DoBuildLoaders(IF temporal_configuration = "per_frame"
                      THEN Transpose(TensorOfRows(inward_edges, 2))
                      ELSE edge_index)
    /\ pc' = "build_loaders"
    /\ UNCHANGED <<err, temporal_configuration, pose_dict, graph_dict, sliced, data_dict>>
    /\ UNCHANGED builderVars

\* pyg_loader.build_loaders() of __main__.
BuildLoaders ==
    /\ pc = "build_loaders"
    /\ DoBuildLoaders(edge_index)
    /\ pc' = "done"
    /\ UNCHANGED <<err, temporal_configuration, pose_dict, graph_dict, sliced, data_dict>>
    /\ UNCHANGED builderVars

Next ==
    \/ BuildGraphConstructor
    \/ AssembleVideo
    \/ ReaderDone
    \/ LoaderInit
    \/ BuildLoaders

Spec == Init /\ [][Next]_vars

\* ------------------------------------------------------------ properties
\* The rows of an edge tensor as a list of pairs (none for the 1-D tensor
\* torch.tensor([])).
Rows(t) ==
    IF Len(t.shape) = 2
    THEN [r \in 1..t.shape[1] |-> <<At(t, r - 1, 0), At(t, r - 1, 1)>>]
    ELSE <<>>

\* The columns of a transposed (2 x k) edge tensor as a list of pairs.
Edges(t) == [e \in 1..t.shape[2] |-> <<At(t, 0, e - 1), At(t, 1, e - 1)>>]

TemplateBuilt == pc \in {"assemble", "loader_init", "build_loaders", "done"}
LoadersBuilt == pc \in {"build_loaders", "done"}
NFrames(i) == pose_dict[i].node_pos.shape[2]

\* C1: every assembled video has min(n_frames, max_frames) * |inward_edges|
\* spatial edges and max(0, min(n_frames, max_frames) - 1) * N temporal edges.
C1_EdgeCounts ==
    \A i \in 1..Len(sliced) :
        LET used == Min(NFrames(i), max_frames)
        IN  /\ sliced[i].spatial_edges.shape[2] = used * n_spatial_edges
            /\ sliced[i].temporal_edges.shape[2] = Max(0, used - 1) * N_NODES

\* C2: truncation equivalence: for 1 <= f <= F_max the first f * |inward_edges|
\* rows of the spatial template and the first (f - 1) * N rows of the temporal
\* template are, in order, the edge lists built directly for f frames.
C2_TruncationEquivalence ==
    TemplateBuilt =>
        LET srows == Rows(spatial_edges)
            trows == Rows(temporal_edges)
        IN  \A f \in 1..max_n_frames :
                /\ SubSeq(srows, 1, f * n_spatial_edges) = SpatialEdgeList(f)
                /\ SubSeq(trows, 1, (f - 1) * N_NODES) = TemporalEdgeList(f)

\* C2 witness: a template of at least three frames, so that proper prefixes
\* of more than one frame exist.
C2_Witness ==
    /\ TemplateBuilt
    /\ max_n_frames >= 3
    /\ Len(Rows(spatial_edges)) = max_n_frames * n_spatial_edges
    /\ n_spatial_edges >= 2

\* The number of items of partition part whose key is k.
Occurrences(part, k) == Cardinality({j \in 1..Len(part) : part[j].k = k})

\* C3: _split_dataset puts every record of data_dict in exactly one of train,
\* val, test-view0, test-view1, test-view2.
C3_PartitionExact ==
    LoadersBuilt =>
        \A k \in 1..Len(data_dict) :
            /\ Occurrences(partitions.train, k) + Occurrences(partitions.val, k)
                 + Occurrences(partitions.test[1], k)
                 + Occurrences(partitions.test[2], k)
                 + Occurrences(partitions.test[3], k) = 1
            /\ \A part \in {partitions.train, partitions.val, partitions.test[1],
                            partitions.test[2], partitions.test[3]} :
                   \A j \in 1..Len(part) : part[j].v = data_dict[part[j].k]

\* C3 witness: a split dataset with a train record and a test record of
\* view 1 or 2.
C3_Witness ==
    /\ LoadersBuilt
    /\ Len(data_dict) >= 2
    /\ Len(partitions.train) >= 1
    /\ Len(partitions.test[2]) + Len(partitions.test[3]) >= 1

\* C4: test_loader[i] holds exactly the test records of view i, i = 0, 1, 2.
C4_TestLoadersByView ==
    LoadersBuilt =>
        \A i \in 1..3 :
            /\ \A j \in 1..Len(test_loader[i].data_list) :
                   test_loader[i].data_list[j].view = i - 1
            /\ Len(test_loader[i].data_list)
                 = Cardinality({k \in 1..Len(data_dict) :
                        data_dict[k].split = "test" /\ data_dict[k].view = i - 1})

AllLoaders == {train_loader, val_loader, test_loader[1], test_loader[2], test_loader[3]}

\* C5: in spatio_temporal mode the edge_index of a graph with at least two
\* frames used holds a temporal edge, from a node f0 * N + n to (f0 + 1) * N + n.
C5_TemporalEdgesServed ==
    (LoadersBuilt /\ temporal_configuration = "spatio_temporal") =>
        \A l \in AllLoaders :
            \A j \in 1..Len(l.data_list) :
                LET d == l.data_list[j]
                IN  Min(d.n_frames, max_frames) >= 2 =>
                        \E e \in 1..d.edge_index.shape[2] :
                            At(d.edge_index, 1, e - 1)
                                = At(d.edge_index, 0, e - 1) + N_NODES

\* C6: a video of fewer than two frames is assembled without an error and
\* with an empty temporal edge set.
C6_DegenerateLength ==
    /\ \A i \in 1..Len(sliced) :
           NFrames(i) < 2 => sliced[i].temporal_edges.shape[2] = 0
    /\ (pc = "error" /\ err = "IndexError") => NFrames(Len(graph_dict) + 1) >= 2

OneHot(n, r) == IF r = n THEN 1 ELSE 0

\* C7: column f * N + n of landmark_features is the one-hot vector of n, for
\* every frame f < F_max, and so is row f * N + n of every record's x.
C7_RoleEncoding ==
    TemplateBuilt =>
        /\ landmark_features.shape = <<N_NODES, max_n_frames * N_NODES>>
        /\ \A f \in 0..(max_n_frames - 1) : \A n \in 0..(N_NODES - 1) :
               \A r \in 0..(N_NODES - 1) :
                   At(landmark_features, r, f * N_NODES + n) = OneHot(n, r)
        /\ \A i \in 1..Len(graph_dict) :
               LET x == graph_dict[i].x
               IN  /\ x.shape[2] = N_NODES
                   /\ \A f \in 0..(NFrames(i) - 1) : \A n \in 0..(N_NODES - 1) :
                          /\ f * N_NODES + n < x.shape[1]
                          /\ \A r \in 0..(N_NODES - 1) :
                                 At(x, f * N_NODES + n, r) = OneHot(n, r)

\* C7 witness: a template of several frames and a record of several frames.
C7_Witness ==
    /\ TemplateBuilt
    /\ max_n_frames >= 2
    /\ \E i \in 1..Len(graph_dict) : NFrames(i) >= 2 /\ graph_dict[i].x.shape[1] > N_NODES

\* C8: x of every record has min(n_frames, max_frames) * N rows.
C8_FeatureRows ==
    \A i \in 1..Len(graph_dict) :
        graph_dict[i].x.shape = <<Min(NFrames(i), max_frames) * N_NODES, N_NODES>>

\* C9 as stated: reshape_nodes gives positions of shape (frames, 2N) whose
\* row i holds coordinates of frame i only.
C9_FrameMajorPositions ==
    \A i \in 1..Len(graph_dict) :
        LET pos == graph_dict[i].node_pos
        IN  NFrames(i) >= 1 =>
                /\ pos.shape = <<NFrames(i), 2 * N_NODES>>
                /\ \A r \in 0..(NFrames(i) - 1) : \A c \in 0..(2 * N_NODES - 1) :
                       At(pos, r, c)[2] = r

\* C9 amended: reshape_nodes gives positions of shape (2, frames * N): row c
\* holds coordinate c, and its column f * N + n that of node n in frame f.
C9_ChannelMajorPositions ==
    \A i \in 1..Len(graph_dict) :
        LET pos == graph_dict[i].node_pos
        IN  NFrames(i) >= 1 =>
                /\ pos.shape = <<2, NFrames(i) * N_NODES>>
                /\ \A c \in 0..1 : \A f \in 0..(NFrames(i) - 1) :
                       \A n \in 0..(N_NODES - 1) :
                           At(pos, c, f * N_NODES + n) = <<c, f, n>>

\* C9 witness: an assembled record of a video of three frames or more (so the
\* frame count is not the channel count).
C9_Witness ==
    \E i \in 1..Len(graph_dict) :
        NFrames(i) >= 3 /\ Len(graph_dict[i].node_pos.data) = 2 * NFrames(i) * N_NODES

\* C10: every endpoint of every edge of a graph handed to the batching layer
\* is a row of its x, and x has as many rows as pos.
C10_EdgeValidity ==
    LoadersBuilt =>
        \A l \in AllLoaders :
            \A j \in 1..Len(l.data_list) :
                LET d == l.data_list[j]
                IN  /\ d.x.shape[1] = d.pos.shape[1]
                    /\ \A e \in 1..d.edge_index.shape[2] :
                           /\ At(d.edge_index, 0, e - 1) \in 0..(d.x.shape[1] - 1)
                           /\ At(d.edge_index, 1, e - 1) \in 0..(d.x.shape[1] - 1)

====
